---- MODULE Spec2Model ----
(***************************************************************************)
(* DocuFlow-AI: the in-memory session store (server/session), the session  *)
(* handlers (server/handlers) and the helpers they call, as a state        *)
(* machine of concurrently running request handlers.                       *)
(*                                                                         *)
(* Strings the code inspects character by character (field identifiers)    *)
(* are sequences of one-character strings; strings the code only stores    *)
(* and compares (answers, question texts, error kinds) are TLA+ strings.   *)
(***************************************************************************)
EXTENDS Integers, Sequences, FiniteSets, TLC

(* ---------------------------------------------------------------- bounds *)

\* Number of request handlers that can run at the same time.
NumProcs == 2
\* Number of session ids (generateID draws a fresh one on every Create).
MaxSessions == 2
\* Number of sessions created in one behaviour of the whole server.
ServerSessions == 1
\* Largest reading of the clock (time.Now) in one behaviour.
MaxTime == 3
\* The longest string handed to a function that goes through its characters.
MaxLen == 3
\* The longest name in a reply of the detection oracle, and the longest reply.
MaxNameLen == 2
MaxList == 3
\* The most pieces a field name handed to InferFieldType is put together of.
MaxPieces == 3
\* The most pieces of text in a document handed to FillDocument, and the most
\* answers.
MaxDocPieces == 2
MaxAnswers == 2

Procs == 1..NumProcs
\* Session ids: generateID draws a fresh one on every Create.
Ids == 1..MaxSessions
\* Ids a client may send: created, deleted, or never created.
ReqIds == Ids
NoProc == 0
NilSession == 0

(* ------------------------------------------------------ field identifiers *)

F_dob == <<"d", "o", "b">>
F_age == <<"a", "g", "e">>
\* An identifier no session of the model has among its fields.
F_zz == <<"z", "z">>
EmptyString == <<>>

\* The field lists handed to Store.Create by a direct caller (the test
\* creates its session this way, with an unsorted list).
FieldLists == { <<F_dob, F_age>> }

\* Lists Create accepts as well, though no caller in the repository passes
\* one: a name repeated.
RepeatedFieldLists == { <<F_dob, F_dob>> }

\* The field a client may name in an answer request.
ReqFields == {F_dob, F_age, F_zz, EmptyString}
\* The answer a client may send ("" is the JSON zero value).
ReqAnswers == {"x", "y", ""}
\* Uploaded documents (their bytes are opaque to the store).
Docs == {"doc"}

(* ------------------------------------------------------------- Go helpers *)

Range(s) == { s[i] : i \in 1..Len(s) }

EmptyMap == <<>>

\* m[k] = v on a Go map.
MapPut(m, k, v) ==
    [x \in (DOMAIN m) \cup {k} |-> IF x = k THEN v ELSE m[x]]

\* strings.Contains(s, pat)
Contains(s, pat) ==
    \E i \in 0..(Len(s) - Len(pat)) : SubSeq(s, i + 1, i + Len(pat)) = pat

\* The characters of the model's strings, in byte order (sort.Strings and
\* the comparisons of normalizeFieldName go by byte value).
Alphabet ==
    << " ", "$", "(", ")", "0", "1", "A", "B", "D", "E", "G", "O", "Z", "[", "]",
       "_", "a", "b", "d", "e", "g", "o", "z", "{", "}" >>

Ord(c) == CHOOSE i \in 1..Len(Alphabet) : Alphabet[i] = c

UpperLetters == <<"A", "B", "D", "E", "G", "O", "Z">>
LowerLetters == <<"a", "b", "d", "e", "g", "o", "z">>

\* unicode.ToLower on the letters of the model's alphabet.
LowerChar(c) ==
    IF \E i \in 1..Len(UpperLetters) : UpperLetters[i] = c
    THEN LowerLetters[CHOOSE i \in 1..Len(UpperLetters) : UpperLetters[i] = c]
    ELSE c

\* unicode.ToUpper on the letters of the model's alphabet.
UpperChar(c) ==
    IF \E i \in 1..Len(LowerLetters) : LowerLetters[i] = c
    THEN UpperLetters[CHOOSE i \in 1..Len(LowerLetters) : LowerLetters[i] = c]
    ELSE c

\* strings.ToLower
ToLower(s) == [i \in 1..Len(s) |-> LowerChar(s[i])]

(* --------------------------------------------------------- InferFieldType *)

datePatterns ==
    << <<"d","a","t","e">>, <<"d","o","b">>, <<"b","i","r","t","h">>,
       <<"d","e","a","d","l","i","n","e">>, <<"e","x","p","i","r","y">>,
       <<"e","x","p","i","r","a","t","i","o","n">>,
       <<"a","n","n","i","v","e","r","s","a","r","y">> >>

numberPatterns ==
    << <<"a","g","e">>, <<"c","o","u","n","t">>, <<"n","u","m","b","e","r">>,
       <<"a","m","o","u","n","t">>, <<"q","u","a","n","t","i","t","y">>,
       <<"p","r","i","c","e">>, <<"t","o","t","a","l">>, <<"s","u","m">>,
       <<"y","e","a","r">>, <<"m","o","n","t","h","s">>, <<"d","a","y","s">>,
       <<"h","o","u","r","s">> >>

InferFieldTypeNumberFirst(fieldName) ==
    LET lowerField == ToLower(fieldName) IN
    IF \E i \in 1..Len(numberPatterns) : Contains(lowerField, numberPatterns[i])
    THEN "number"
    ELSE IF \E i \in 1..Len(datePatterns) : Contains(lowerField, datePatterns[i])
    THEN "date"
    ELSE "text"

InferFieldType(fieldName) ==
    LET lowerField == ToLower(fieldName) IN
    IF \E i \in 1..Len(datePatterns) : Contains(lowerField, datePatterns[i])
    THEN "date"
    ELSE IF \E i \in 1..Len(numberPatterns) : Contains(lowerField, numberPatterns[i])
    THEN "number"
    ELSE "text"

(* ------------------------------------------------------ humanizeFieldName *)

\* strings.Split(s, "_"): the words between underscores, empty ones kept.
RECURSIVE SplitUnderscore(_, _)
SplitUnderscore(s, word) ==
    IF s = <<>> THEN <<word>>
    ELSE IF Head(s) = "_" THEN <<word>> \o SplitUnderscore(Tail(s), <<>>)
    ELSE SplitUnderscore(Tail(s), Append(word, Head(s)))

\* strings.Join(words, " ")
RECURSIVE JoinSpace(_)
JoinSpace(words) ==
    IF words = <<>> THEN <<>>
    ELSE IF Len(words) = 1 THEN words[1]
    ELSE words[1] \o <<" ">> \o JoinSpace(Tail(words))

Capitalize(word) ==
    IF Len(word) > 0 THEN <<UpperChar(word[1])>> \o Tail(word) ELSE word

WhatIsThe == <<"W","h","a","t"," ","i","s"," ","t","h","e"," ">>

humanizeFieldName(field) ==
    LET words == SplitUnderscore(field, <<>>)
        caps == [i \in 1..Len(words) |-> Capitalize(words[i])]
    IN WhatIsThe \o JoinSpace(caps) \o <<"?">>

(* ----------------------------------- normalizeFieldName, detectFieldsWithAI *)

TrimCutset == {"[", "]", "{", "}", "(", ")", "$"}

\* strings.TrimLeft / TrimRight / Trim over a set of characters.
RECURSIVE TrimLeft(_, _)
TrimLeft(s, cut) ==
    IF s # <<>> /\ Head(s) \in cut THEN TrimLeft(Tail(s), cut) ELSE s

RECURSIVE TrimRight(_, _)
TrimRight(s, cut) ==
    IF s # <<>> /\ s[Len(s)] \in cut
    THEN TrimRight(SubSeq(s, 1, Len(s) - 1), cut) ELSE s

Trim(s, cut) == TrimRight(TrimLeft(s, cut), cut)

\* strings.TrimSpace (the space is the only white space of Alphabet).
TrimSpace(s) == Trim(s, {" "})

\* strings.ReplaceAll(s, " ", "_")
SpacesToUnderscores(s) == [i \in 1..Len(s) |-> IF s[i] = " " THEN "_" ELSE s[i]]

IsIdentChar(c) ==
    \/ Ord("a") <= Ord(c) /\ Ord(c) <= Ord("z")
    \/ Ord("0") <= Ord(c) /\ Ord(c) <= Ord("1")
    \/ c = "_"

KeepAllChars(s) == s

\* The strings.Builder loop keeping a-z, 0-9 and "_".
RECURSIVE KeepIdentChars(_)
KeepIdentChars(s) ==
    IF s = <<>> THEN <<>>
    ELSE IF IsIdentChar(Head(s)) THEN <<Head(s)>> \o KeepIdentChars(Tail(s))
    ELSE KeepIdentChars(Tail(s))

normalizeFieldName(field) ==
    KeepIdentChars(SpacesToUnderscores(ToLower(TrimSpace(Trim(field, TrimCutset)))))

\* The byte-wise order of Go strings.
RECURSIVE StrLess(_, _)
StrLess(a, b) ==
    IF b = <<>> THEN FALSE
    ELSE IF a = <<>> THEN TRUE
    ELSE IF Head(a) = Head(b) THEN StrLess(Tail(a), Tail(b))
    ELSE Ord(Head(a)) < Ord(Head(b))

\* sort.Strings of the keys of a set-map.
RECURSIVE SortStrings(_)
SortStrings(S) ==
    IF S = {} THEN <<>>
    ELSE LET m == CHOOSE x \in S : \A y \in S \ {x} : StrLess(x, y)
         IN <<m>> \o SortStrings(S \ {m})

NormalizeDetectedAsReturned(fieldList) ==
    [i \in 1..Len(fieldList) |-> normalizeFieldName(fieldList[i])]

\* The tail of detectFieldsWithAI: normalize, remove duplicates, sort.
NormalizeDetected(fieldList) ==
    LET normalized == [i \in 1..Len(fieldList) |-> normalizeFieldName(fieldList[i])]
    IN SortStrings(Range(normalized))

(* ------------------------------------------------------------------ state *)

VARIABLES
    store,      \* Store.sessions: the ids that are keys of the map
    objs,       \* the Session objects the map's pointers lead to, by id
    idsUsed,    \* number of ids generateID has handed out
    writer,     \* Store.mu: the handler holding Lock, or NoProc
    readers,    \* Store.mu: the handlers holding RLock
    clock,      \* the last reading of time.Now
    crashed,    \* the runtime ended the process (concurrent map access)
    pc,         \* per handler: the statement it is at
    req,        \* per handler: the request it serves
    sess,       \* per handler: the *Session that Store.Get returned
    tmp,        \* per handler: a local value (scan result, oracle reply, ...)
    resp,       \* per handler: the response it wrote
    call        \* a call of one of the package's pure functions: argument, result

vars ==
    << store, objs, idsUsed, writer, readers, clock, crashed,
       pc, req, sess, tmp, resp, call >>

storeVars == << store, objs, idsUsed >>
lockVars == << writer, readers >>

NoReq == [op |-> "none"]
NoTmp == [kind |-> "none"]
NoResp == [status |-> 0]
NoCall == [fn |-> "none"]

Init ==
    /\ store = {}
    /\ objs = EmptyMap
    /\ idsUsed = 0
    /\ writer = NoProc
    /\ readers = {}
    /\ clock = 0
    /\ crashed = FALSE
    /\ pc = [p \in Procs |-> "idle"]
    /\ req = [p \in Procs |-> NoReq]
    /\ sess = [p \in Procs |-> NilSession]
    /\ tmp = [p \in Procs |-> NoTmp]
    /\ resp = [p \in Procs |-> NoResp]
    /\ call = NoCall

Request(op, sid, field, answer, flist, doc) ==
    [op |-> op, sid |-> sid, field |-> field, answer |-> answer,
     flist |-> flist, doc |-> doc]

\* c.JSON(status, ErrorResponse{Error: kind}) followed by return.
ErrorResponse(status, kind) == [status |-> status, error |-> kind]

\* The same with ErrorResponse.Message set.
ErrorResponseMsg(status, kind, message) ==
    [status |-> status, error |-> kind, message |-> message]

\* The handler p writes response r and returns.
Respond(p, r) ==
    /\ resp' = [resp EXCEPT ![p] = r]
    /\ pc' = [pc EXCEPT ![p] = "done"]

\* The handler p goes on to statement l.
Goto(p, l) == pc' = [pc EXCEPT ![p] = l]

\* A reading t of time.Now: later than every reading before it.
IsNow(t) == t = clock + 1 /\ t <= MaxTime

(* ------------------------------------------------------- the handlers' data *)

\* A count that is one too high.
AnsweredCountPlusOne(s) == Cardinality(DOMAIN s.answers) + 1

\* len(sess.Answers)
AnsweredCount(s) == Cardinality(DOMAIN s.answers)

\* IsCompleted: answeredCount == len(sess.Fields)
IsCompleted(s) == AnsweredCount(s) = Len(s.fields)

SessionStatusResponse(s) ==
    [ status |-> 200, error |-> "",
      sessionId |-> s.id,
      fields |-> s.fields,
      answers |-> s.answers,
      questions |-> s.questions,
      progress |-> AnsweredCount(s),
      total |-> Len(s.fields),
      isCompleted |-> IsCompleted(s) ]

\* binding:"required" on AnswerRequest.Field and AnswerRequest.Answer
BindAnswerRequest(field, answer) == field # EmptyString /\ answer # ""

\* The fieldExists loop over sess.Fields.
RECURSIVE FieldExistsFrom(_, _, _)
FieldExistsFrom(fields, f, i) ==
    IF i > Len(fields) THEN FALSE
    ELSE IF fields[i] = f THEN TRUE
    ELSE FieldExistsFrom(fields, f, i + 1)

\* A test that accepts every identifier.
fieldExistsAlways(fields, f) == TRUE

fieldExists(fields, f) == FieldExistsFrom(fields, f, 1)

\* The gin.H of the 200 answer: "progress": len(sess.Answers) + 1
AnswerSavedResponse(s, r) ==
    [ status |-> 200, error |-> "",
      field |-> r.field,
      progress |-> AnsweredCount(s) + 1,
      total |-> Len(s.fields) ]

\* The loop "for _, field := range sess.Fields": the index of the first
\* field with no entry in sess.Answers, 0 when the loop runs to its end.
RECURSIVE FirstUnansweredFrom(_, _, _)
FirstUnansweredFrom(fields, answers, i) ==
    IF i > Len(fields) THEN 0
    ELSE IF fields[i] \notin DOMAIN answers THEN i
    ELSE FirstUnansweredFrom(fields, answers, i + 1)

\* A scan that keeps the last unanswered field instead of the first.
LastUnanswered(s) ==
    LET U == { i \in 1..Len(s.fields) : s.fields[i] \notin DOMAIN s.answers }
    IN IF U = {} THEN 0 ELSE CHOOSE i \in U : \A j \in U : j <= i

FirstUnanswered(s) == FirstUnansweredFrom(s.fields, s.answers, 1)

\* The QuestionResponse literals: the one inside the loop for the field at
\* index i, the one after the loop for i = 0. FieldType is set by neither
\* and keeps its zero value.
QuestionResponse(s, i) ==
    IF i = 0
    THEN [ status |-> 200, error |-> "",
           field |-> EmptyString, fieldType |-> "", question |-> EmptyString,
           isAIPhrased |-> FALSE,
           progress |-> AnsweredCount(s), total |-> Len(s.fields),
           done |-> TRUE ]
    ELSE LET field == s.fields[i]
             hasAIQuestion == field \in DOMAIN s.questions
         IN [ status |-> 200, error |-> "",
              field |-> field, fieldType |-> "",
              question |-> IF hasAIQuestion THEN s.questions[field]
                           ELSE humanizeFieldName(field),
              isAIPhrased |-> hasAIQuestion,
              progress |-> AnsweredCount(s), total |-> Len(s.fields),
              done |-> FALSE ]

Q_text == <<"Q", "?">>

\* What json.Unmarshal can yield as fieldMetadataMap from the model's
\* content: nothing constrains its keys to the fields sent, nor its types;
\* an entry without a "type" member has Type "", the zero value.
QuestionReplies(fields) ==
    { [f \in Range(fields) |-> [question |-> Q_text, type |-> "text"]],
      [f \in {fields[1], F_zz} |->
          [question |-> Q_text, type |-> IF f = F_zz THEN "paragraph" ELSE ""]] }

GenerateQuestionsResponse(fieldMetadataMap) ==
    [ status |-> 200, error |-> "",
      questions |-> [f \in DOMAIN fieldMetadataMap |-> fieldMetadataMap[f].question],
      count |-> Cardinality(DOMAIN fieldMetadataMap) ]

\* A check that finds nothing missing.
UnansweredFieldsNone(s) == {}

\* unansweredFields, as the set of its elements
UnansweredFields(s) == { f \in Range(s.fields) : f \notin DOMAIN s.answers }

\* The document FillDocument returns, by what went into it: the placeholder
\* map was built from the answers read at that moment, by the oracle's
\* mapping ("smart") or by the candidate spellings ("simple").
FilledResponse(s, mode) ==
    [ status |-> 200, error |-> "",
      doc |-> s.originalDoc, answers |-> s.answers, mode |-> mode ]

\* What createSmartPlaceholderMap returns as its error: nil ("none"),
\* "GEMINI_API_KEY not set" before any call, or what findPlaceholdersWithAI
\* returned: ErrGeminiQuotaExhausted, or another error (transport, API
\* status, malformed JSON).
FillOracleOutcomes == {"none", "quota", "other"}

\* A FillDocument that hands the oracle's error to its caller.
FillResultNoFallback(s, err, written) ==
    IF ~written \/ err # "none"
    THEN ErrorResponseMsg(500, "document_generation_failed", "AI replacement failed")
    ELSE FilledResponse(s, "smart")

\* FillDocument from the return of createSmartPlaceholderMap on, and what
\* HandleGenerateDocument answers: an error of the smart map is replaced by
\* the simple map; the output file is written, or that fails.
FillResult(s, err, written) ==
    IF ~written
    THEN ErrorResponseMsg(500, "document_generation_failed",
                          "failed to write filled document")
    ELSE FilledResponse(s, IF err = "none" THEN "smart" ELSE "simple")

(* ------------------------------------------------------------ Store.Create *)

\* The Session literal of Create.
NewSession(id, docBytes, fields, now) ==
    [ id |-> id,
      originalDoc |-> docBytes,
      fields |-> fields,
      fieldTypes |-> [f \in Range(fields) |-> InferFieldType(f)],
      answers |-> EmptyMap,
      questions |-> EmptyMap,
      createdAt |-> now,
      updatedAt |-> now ]

\* s.mu.Lock()
CanLock(p) == writer = NoProc /\ readers = {}

\* s.mu.RLock()
CanRLock(p) == writer = NoProc

\* The call Create(docBytes, fields) by handler p, up to s.mu.Lock():
\* generateID (rand.Read may fail, and Create returns the error, which
\* HandleUpload answers with 500), the fieldTypes loop, time.Now and the
\* Session literal.
CreateCall(p, docBytes, fields) ==
    \/ /\ idsUsed < MaxSessions
       /\ \E now \in 1..MaxTime :
             /\ IsNow(now)
             /\ clock' = now
             /\ tmp' = [tmp EXCEPT ![p] =
                     [kind |-> "session",
                      session |-> NewSession(idsUsed + 1, docBytes, fields, now)]]
       /\ idsUsed' = idsUsed + 1
       /\ Goto(p, "create_lock")
       /\ UNCHANGED resp
    \/ /\ tmp' = [tmp EXCEPT ![p] = [kind |-> "fields", fields |-> fields]]
       /\ Respond(p, ErrorResponse(500, "session_creation_error"))
       /\ UNCHANGED << idsUsed, clock >>

\* What the caller of Create answers: HandleUpload an UploadResponse, a
\* direct caller (the test) keeps the session.
CreatedResponse(session) ==
    [ status |-> 200, error |-> "",
      sessionId |-> session.id, fields |-> session.fields ]

\* s.mu.Lock(); s.sessions[id] = session; s.mu.Unlock(); return session
CreateInsert(p) ==
    /\ pc[p] = "create_lock"
    /\ CanLock(p)
    /\ LET session == tmp[p].session IN
        /\ store' = store \cup {session.id}
        /\ objs' = MapPut(objs, session.id, session)
        /\ sess' = [sess EXCEPT ![p] = session.id]
        /\ Respond(p, CreatedResponse(session))
    /\ UNCHANGED << idsUsed, lockVars, clock, crashed, req, tmp >>

(* --------------------------------------------------------------- Store.Get *)

\* What a handler does between Store.Get returning a session and its next
\* access to shared state: HandleSubmitAnswers runs the fieldExists loop
\* over sess.Fields (never written after Create), HandleGenerateQuestions
\* reads OPENAI_API_KEY (os.Getenv on every request: set, or not).
AfterGet(p, session) ==
    CASE req[p].op = "status" -> Goto(p, "status_read") /\ UNCHANGED resp
      [] req[p].op = "next" -> Goto(p, "next_scan") /\ UNCHANGED resp
      [] req[p].op = "generate" -> Goto(p, "gen_check") /\ UNCHANGED resp
      [] req[p].op = "submit" ->
            IF fieldExists(objs[session].fields, req[p].field)
            THEN Goto(p, "upd_lock") /\ UNCHANGED resp
            ELSE Respond(p, ErrorResponse(400, "invalid_field"))
      [] req[p].op = "questions" ->
            \E apiKeySet \in BOOLEAN :
                IF apiKeySet
                THEN Goto(p, "q_oracle") /\ UNCHANGED resp
                ELSE Respond(p, ErrorResponse(500, "api_key_missing"))

\* s.mu.RLock()
RLock(p) == readers \cup {p}

\* A Get that returns without releasing the read lock.
RUnlockForgotten(p, held) == held

\* The deferred s.mu.RUnlock() of a handler that holds the read lock.
RUnlock(p, held) == held \ {p}

\* A lookup that still finds deleted sessions.
StoreLookupStale(id) == IF id \in DOMAIN objs THEN id ELSE NilSession

\* session, exists := s.sessions[id]: the pointer, or nil.
StoreLookup(id) == IF id \in store THEN id ELSE NilSession

\* Get from RLock to its deferred RUnlock, and the caller's "if err != nil"
\* (every handler answers ErrSessionNotFound with 404 session_not_found).
Get(p) ==
    /\ pc[p] = "get_rlock"
    /\ CanRLock(p)
    /\ readers' = RUnlock(p, RLock(p))
    /\ LET session == StoreLookup(req[p].sid) IN
        IF session = NilSession
        THEN /\ Respond(p, ErrorResponse(404, "session_not_found"))
             /\ UNCHANGED sess
        ELSE /\ sess' = [sess EXCEPT ![p] = session]
             /\ AfterGet(p, session)
    /\ UNCHANGED << storeVars, writer, clock, crashed, req, tmp >>

(* ------------------------------------------------------------ Store.Update *)

\* A closure that replaces the map instead of adding to it.
SubmitMutatorReplacing(s, r) ==
    [s EXCEPT !.answers = MapPut(EmptyMap, r.field, r.answer)]

\* HandleSubmitAnswers' closure: s.Answers[req.Field] = req.Answer
SubmitMutator(s, r) ==
    [s EXCEPT !.answers = MapPut(@, r.field, r.answer)]

\* A closure that starts the session over.
QuestionsMutatorClearing(s, fieldMetadataMap) ==
    [s EXCEPT !.answers = EmptyMap]

\* HandleGenerateQuestions' closure: for every key of fieldMetadataMap,
\* s.Questions[field] = metadata.Question; s.FieldTypes[field] = metadata.Type
QuestionsMutator(s, fieldMetadataMap) ==
    [s EXCEPT
       !.questions = [f \in (DOMAIN @) \cup (DOMAIN fieldMetadataMap) |->
                        IF f \in DOMAIN fieldMetadataMap
                        THEN fieldMetadataMap[f].question ELSE @[f]],
       !.fieldTypes = [f \in (DOMAIN @) \cup (DOMAIN fieldMetadataMap) |->
                        IF f \in DOMAIN fieldMetadataMap
                        THEN fieldMetadataMap[f].type ELSE @[f]]]

\* updateFn(session) for the handler p that called Update.
updateFn(p, s) ==
    IF req[p].op = "submit" THEN SubmitMutator(s, req[p])
    ELSE QuestionsMutator(s, tmp[p].reply)

\* The maps of the Session that p's closure writes.
MapsWritten(p) ==
    IF req[p].op = "submit" THEN {"answers"} ELSE {"questions", "fieldTypes"}

\* What a handler does once Store.Update returned nil: HandleSubmitAnswers
\* goes on to read len(sess.Answers), HandleGenerateQuestions answers from
\* its local fieldMetadataMap.
AfterUpdate(p) ==
    IF req[p].op = "submit"
    THEN Goto(p, "submit_respond") /\ UNCHANGED resp
    ELSE Respond(p, GenerateQuestionsResponse(tmp[p].reply))

\* s.mu.Lock() of Update
UpdateLock(p) ==
    /\ pc[p] = "upd_lock"
    /\ CanLock(p)
    /\ writer' = p
    /\ Goto(p, "upd_apply")
    /\ UNCHANGED << storeVars, readers, clock, crashed, req, sess, tmp, resp >>

\* An Update that hands another session of the store to updateFn.
UpdateTargetOther(id) ==
    IF \E j \in store : j # id THEN CHOOSE j \in store : j # id
    ELSE StoreLookup(id)

\* A stamp that lands on the wrong attribute.
SetCreatedAt(s, now) == [s EXCEPT !.createdAt = now]

\* session.UpdatedAt = time.Now()
SetUpdatedAt(s, now) == [s EXCEPT !.updatedAt = now]

\* The session Update hands to updateFn.
UpdateTarget(id) == StoreLookup(id)

\* Update from its lookup to the deferred Unlock: a missing id returns
\* ErrSessionNotFound and the handler answers 500 update_failed; else
\* updateFn(session) runs and session.UpdatedAt = time.Now().
UpdateApply(p) ==
    /\ pc[p] = "upd_apply"
    /\ LET session == UpdateTarget(req[p].sid) IN
        IF session = NilSession
        THEN /\ Respond(p, ErrorResponse(500, "update_failed"))
             /\ UNCHANGED << objs, clock >>
        ELSE /\ \E now \in 1..MaxTime :
                   /\ IsNow(now)
                   /\ clock' = now
                   /\ objs' = [objs EXCEPT ![session] =
                                 SetUpdatedAt(updateFn(p, @), now)]
             /\ AfterUpdate(p)
    /\ writer' = NoProc
    /\ UNCHANGED << store, idsUsed, readers, crashed, req, sess, tmp >>

(* ------------------------------------------------------------ Store.Delete *)

\* Delete from Lock to the deferred Unlock. The response is Delete's return
\* value (nil, or ErrSessionNotFound).
Delete(p) ==
    /\ pc[p] = "del_lock"
    /\ CanLock(p)
    /\ IF StoreLookup(req[p].sid) = NilSession
       THEN /\ Respond(p, ErrorResponse(404, "ErrSessionNotFound"))
            /\ UNCHANGED store
       ELSE /\ store' = store \ {req[p].sid}
            /\ Respond(p, [status |-> 200, error |-> ""])
    /\ UNCHANGED << objs, idsUsed, lockVars, clock, crashed, req, sess, tmp >>

(* ------------------------------------------------- unsynchronized accesses *)

\* The maps of the Session that the statement l reads through the pointer
\* Get returned, with no lock held.
MapsRead(l) ==
    CASE l = "status_read" -> {"answers", "questions"}
      [] l = "next_scan" -> {"answers"}
      [] l = "next_respond" -> {"answers", "questions"}
      [] l = "submit_respond" -> {"answers"}
      [] l = "gen_check" -> {"answers"}
      [] l = "fill_open" -> {"answers"}
      [] l = "fill_oracle" -> {"answers"}
      [] OTHER -> {}

\* q is inside updateFn (Store.mu held) on the session p points to, writing
\* a map that p's next statement reads.
WritesUnder(q, p) ==
    /\ q # p
    /\ pc[q] = "upd_apply"
    /\ sess[p] # NilSession
    /\ StoreLookup(req[q].sid) = sess[p]
    /\ MapsWritten(q) \cap MapsRead(pc[p]) # {}

Racing(p) == \E q \in Procs : WritesUnder(q, p)

\* A map read that overlaps a map write: the Go runtime may end the process
\* ("fatal error: concurrent map read and map write"); when it does not,
\* the read takes effect before or after the write (the handler's own step).
RaceCrash(p) ==
    /\ Racing(p)
    /\ crashed' = TRUE
    /\ UNCHANGED << storeVars, lockVars, clock, pc, req, sess, tmp, resp >>

(* -------------------------------------------------------- HandleGetSession *)

StartStatus(p) ==
    /\ pc[p] = "idle"
    /\ \E sid \in ReqIds :
          req' = [req EXCEPT ![p] = Request("status", sid, EmptyString, "", <<>>, "")]
    /\ Goto(p, "get_rlock")
    /\ UNCHANGED << storeVars, lockVars, clock, crashed, sess, tmp, resp >>

StatusRead(p) ==
    /\ pc[p] = "status_read"
    /\ Respond(p, SessionStatusResponse(objs[sess[p]]))
    /\ UNCHANGED << storeVars, lockVars, clock, crashed, req, sess, tmp >>

(* ----------------------------------------------------- HandleSubmitAnswers *)

\* c.ShouldBindJSON(&req)
StartSubmit(p) ==
    /\ pc[p] = "idle"
    /\ \E sid \in ReqIds, field \in ReqFields, answer \in ReqAnswers :
          /\ req' = [req EXCEPT ![p] = Request("submit", sid, field, answer, <<>>, "")]
          /\ IF BindAnswerRequest(field, answer)
             THEN Goto(p, "get_rlock") /\ UNCHANGED resp
             ELSE Respond(p, ErrorResponse(400, "invalid_request"))
    /\ UNCHANGED << storeVars, lockVars, clock, crashed, sess, tmp >>

SubmitRespond(p) ==
    /\ pc[p] = "submit_respond"
    /\ Respond(p, AnswerSavedResponse(objs[sess[p]], req[p]))
    /\ UNCHANGED << storeVars, lockVars, clock, crashed, req, sess, tmp >>

(* --------------------------------------------------- HandleGetNextQuestion *)

StartNext(p) ==
    /\ pc[p] = "idle"
    /\ \E sid \in ReqIds :
          req' = [req EXCEPT ![p] = Request("next", sid, EmptyString, "", <<>>, "")]
    /\ Goto(p, "get_rlock")
    /\ UNCHANGED << storeVars, lockVars, clock, crashed, sess, tmp, resp >>

NextScan(p) ==
    /\ pc[p] = "next_scan"
    /\ tmp' = [tmp EXCEPT ![p] =
                 [kind |-> "scan", index |-> FirstUnanswered(objs[sess[p]])]]
    /\ Goto(p, "next_respond")
    /\ UNCHANGED << storeVars, lockVars, clock, crashed, req, sess, resp >>

NextRespond(p) ==
    /\ pc[p] = "next_respond"
    /\ Respond(p, QuestionResponse(objs[sess[p]], tmp[p].index))
    /\ UNCHANGED << storeVars, lockVars, clock, crashed, req, sess, tmp >>

(* ------------------------------------------------- HandleGenerateQuestions *)

StartQuestions(p) ==
    /\ pc[p] = "idle"
    /\ \E sid \in ReqIds :
          req' = [req EXCEPT ![p] = Request("questions", sid, EmptyString, "", <<>>, "")]
    /\ Goto(p, "get_rlock")
    /\ UNCHANGED << storeVars, lockVars, clock, crashed, sess, tmp, resp >>

\* What generateQuestionsWithAI returns: a map and no error, or a nil map
\* and an error (transport, API status, no choices, malformed JSON).
QuestionOutcomes(fields) ==
    { [err |-> "none", reply |-> r] : r \in QuestionReplies(fields) }
        \cup { [err |-> "failed", reply |-> EmptyMap] }

\* A handler that goes on whatever the oracle returned.
OracleFailedIgnored(err) == FALSE

\* if err != nil
OracleFailed(err) == err # "none"

\* generateQuestionsWithAI(sess.Fields, apiKey): the HTTP call returns; an
\* error makes the handler answer 500 ai_generation_failed and return.
QuestionsOracle(p) ==
    /\ pc[p] = "q_oracle"
    /\ \E outcome \in QuestionOutcomes(objs[sess[p]].fields) :
          /\ tmp' = [tmp EXCEPT ![p] =
                       [kind |-> "metadata", err |-> outcome.err,
                        reply |-> outcome.reply]]
          /\ IF OracleFailed(outcome.err)
             THEN Respond(p, ErrorResponse(500, "ai_generation_failed"))
             ELSE Goto(p, "upd_lock") /\ UNCHANGED resp
    /\ UNCHANGED << storeVars, lockVars, clock, crashed, req, sess >>

(* --------------------------------------- HandleGenerateDocument, FillDocument *)

StartGenerate(p) ==
    /\ pc[p] = "idle"
    /\ \E sid \in ReqIds :
          req' = [req EXCEPT ![p] = Request("generate", sid, EmptyString, "", <<>>, "")]
    /\ Goto(p, "get_rlock")
    /\ UNCHANGED << storeVars, lockVars, clock, crashed, sess, tmp, resp >>

GenerateCheck(p) ==
    /\ pc[p] = "gen_check"
    /\ IF UnansweredFields(objs[sess[p]]) # {}
       THEN Respond(p, ErrorResponse(400, "incomplete_answers"))
       ELSE Goto(p, "fill_open") /\ UNCHANGED resp
    /\ UNCHANGED << storeVars, lockVars, clock, crashed, req, sess, tmp >>

\* FillDocument up to createSmartPlaceholderMap's key test: the temp file
\* and docx.ReadDocxFile may fail; when GEMINI_API_KEY is unset the smart map
\* fails at once and FillDocument goes on to its end; when it is set the
\* fields are collected from answers and findPlaceholdersWithAI is called.
FillOpen(p) ==
    /\ pc[p] = "fill_open"
    /\ \/ /\ Respond(p, ErrorResponseMsg(500, "document_generation_failed",
                                         "failed to read docx"))
          /\ UNCHANGED tmp
       \/ \E written \in BOOLEAN :
             /\ tmp' = [tmp EXCEPT ![p] =
                          [kind |-> "fill", err |-> "key_missing", written |-> written]]
             /\ Respond(p, FillResult(objs[sess[p]], "key_missing", written))
       \/ /\ Goto(p, "fill_oracle")
          /\ UNCHANGED << resp, tmp >>
    /\ UNCHANGED << storeVars, lockVars, clock, crashed, req, sess >>

\* findPlaceholdersWithAI returns, and FillDocument runs to its end.
FillOracle(p) ==
    /\ pc[p] = "fill_oracle"
    /\ \E err \in FillOracleOutcomes, written \in BOOLEAN :
          /\ tmp' = [tmp EXCEPT ![p] =
                       [kind |-> "fill", err |-> err, written |-> written]]
          /\ Respond(p, FillResult(objs[sess[p]], err, written))
    /\ UNCHANGED << storeVars, lockVars, clock, crashed, req, sess >>

(* ------------------------------------------------------------ HandleUpload *)

\* c.FormFile finds no file; the name does not end in .docx; file.Open or
\* io.ReadAll fails; or the bytes are read.
UploadFiles == {"none", "txt", "unreadable", "docx"}

\* The text of the error DetectFields returns, by its cause: the document
\* could not be read, GEMINI_API_KEY is unset, or detectFieldsWithAI returned
\* ErrGeminiQuotaExhausted or another error, wrapped with %w.
DetectMessage(err) ==
    CASE err = "read" -> "docx read failed"
      [] err = "key_missing" -> "GEMINI_API_KEY not set"
      [] err = "quota" -> "AI field detection failed: gemini_quota_exhausted"
      [] err = "other" -> "AI field detection failed: Gemini API error"

\* HandleUpload's answer to an error of DetectFields.
DetectionError(err) ==
    ErrorResponseMsg(500, "field_detection_error", DetectMessage(err))

\* HandleUpload up to the call of detectFieldsWithAI. In DetectFields the
\* temp file and docx.ReadDocxFile may fail and GEMINI_API_KEY may be unset
\* (os.Getenv on every request).
StartUpload(p) ==
    /\ pc[p] = "idle"
    /\ \E file \in UploadFiles, doc \in Docs :
          /\ req' = [req EXCEPT ![p] = Request("upload", NilSession, EmptyString, "", <<>>, doc)]
          /\ CASE file = "none" ->
                    Respond(p, ErrorResponse(400, "missing_file")) /\ UNCHANGED tmp
               [] file = "txt" ->
                    Respond(p, ErrorResponse(400, "invalid_file_type")) /\ UNCHANGED tmp
               [] file = "unreadable" ->
                    Respond(p, ErrorResponse(500, "file_read_error")) /\ UNCHANGED tmp
               [] file = "docx" ->
                    \/ \E err \in {"read", "key_missing"} :
                          /\ tmp' = [tmp EXCEPT ![p] = [kind |-> "detect", err |-> err]]
                          /\ Respond(p, DetectionError(err))
                    \/ Goto(p, "detect_oracle") /\ UNCHANGED << resp, tmp >>
    /\ UNCHANGED << storeVars, lockVars, clock, crashed, sess >>

R_Dob == <<"[", "D", "o", "b", "]">>
R_dob == <<"d", "o", "b">>
R_Age == <<"A", "g", "e">>
R_none == <<"[", "]">>

\* The arrays of names json.Unmarshal can yield as fieldList.
DetectReplies ==
    { <<R_Dob, R_Age, R_dob>>, <<R_Age>>, <<R_none>>, <<>> }

\* The errors detectFieldsWithAI returns: ErrGeminiQuotaExhausted, or another
\* one (transport, API status, no candidates, malformed JSON).
DetectOracleErrors == {"quota", "other"}

NoFieldsFoundNever(fields) == FALSE

\* len(fields) == 0
NoFieldsFound(fields) == Len(fields) = 0

\* detectFieldsWithAI returns an error, or the normalized, deduplicated,
\* sorted names; then HandleUpload's test of len(fields) and its call of
\* Create.
DetectOracle(p) ==
    /\ pc[p] = "detect_oracle"
    /\ \/ \E err \in DetectOracleErrors :
             /\ tmp' = [tmp EXCEPT ![p] = [kind |-> "detect", err |-> err]]
             /\ Respond(p, DetectionError(err))
             /\ UNCHANGED << idsUsed, clock >>
       \/ \E fieldList \in DetectReplies :
             LET fields == NormalizeDetected(fieldList) IN
             IF NoFieldsFound(fields)
             THEN /\ tmp' = [tmp EXCEPT ![p] = [kind |-> "detect", err |-> "none"]]
                  /\ Respond(p, ErrorResponse(400, "no_fields_found"))
                  /\ UNCHANGED << idsUsed, clock >>
             ELSE CreateCall(p, req[p].doc, fields)
    /\ UNCHANGED << store, objs, lockVars, crashed, req, sess >>

(* ------------------------------------------------- direct calls of the store *)

\* A caller of Store.Create(docBytes, fields) with a list of lists.
StartCreate(p, lists) ==
    /\ pc[p] = "idle"
    /\ \E flist \in lists, doc \in Docs :
          /\ req' = [req EXCEPT ![p] = Request("create", NilSession, EmptyString, "", flist, doc)]
          /\ CreateCall(p, doc, flist)
    /\ UNCHANGED << store, objs, lockVars, crashed, sess >>

\* A caller of Store.Delete(id); the server has none.
StartDelete(p) ==
    /\ pc[p] = "idle"
    /\ \E sid \in ReqIds :
          req' = [req EXCEPT ![p] = Request("delete", sid, EmptyString, "", <<>>, "")]
    /\ Goto(p, "del_lock")
    /\ UNCHANGED << storeVars, lockVars, clock, crashed, sess, tmp, resp >>

\* The handler has returned; its goroutine serves the next request.
Return(p) ==
    /\ pc[p] = "done"
    /\ pc' = [pc EXCEPT ![p] = "idle"]
    /\ req' = [req EXCEPT ![p] = NoReq]
    /\ sess' = [sess EXCEPT ![p] = NilSession]
    /\ tmp' = [tmp EXCEPT ![p] = NoTmp]
    /\ resp' = [resp EXCEPT ![p] = NoResp]
    /\ UNCHANGED << storeVars, lockVars, clock, crashed >>

(* ---------------------------------------------------------- specifications *)

\* The steps of the two handlers that call nothing but the store, and of the
\* store's operations that the server calls.
StoreStep(p) ==
    \/ StartStatus(p) \/ StartSubmit(p)
    \/ CreateInsert(p)
    \/ Get(p)
    \/ UpdateLock(p) \/ UpdateApply(p)
    \/ StatusRead(p)
    \/ SubmitRespond(p)
    \/ RaceCrash(p)
    \/ Return(p)

\* The steps of the handlers that call an oracle.
OracleStep(p) ==
    \/ StartNext(p) \/ StartQuestions(p) \/ StartGenerate(p) \/ StartUpload(p)
    \/ NextScan(p) \/ NextRespond(p)
    \/ QuestionsOracle(p)
    \/ GenerateCheck(p) \/ FillOpen(p) \/ FillOracle(p)
    \/ DetectOracle(p)

\* The server with all its routes, and the callers of Store.Create there
\* are (HandleUpload and the test, both with duplicate-free lists);
\* ServerSessions sessions are created.
Next ==
    /\ ~crashed
    /\ \E p \in Procs : StartCreate(p, FieldLists) \/ StoreStep(p) \/ OracleStep(p)
    /\ idsUsed' <= ServerSessions
    /\ UNCHANGED call

Spec == Init /\ [][Next]_vars

\* The steps of a handler that the server takes by itself once the request
\* is in: the goroutine of a request is scheduled until it returns. The
\* replies of the oracle are not among them (QuestionsOracle, FillOracle,
\* DetectOracle): the three calls go through &http.Client{} with no Timeout
\* and a request without context, so client.Do returns only when the remote
\* service answers or the connection breaks.
HandlerStep(p) ==
    /\ ~crashed
    /\ \/ CreateInsert(p)
       \/ Get(p)
       \/ UpdateLock(p)
       \/ UpdateApply(p)
       \/ StatusRead(p)
       \/ SubmitRespond(p)
       \/ NextScan(p)
       \/ NextRespond(p)
       \/ GenerateCheck(p)
       \/ FillOpen(p)
       \/ Return(p)
    /\ UNCHANGED call

Fairness == \A p \in Procs : WF_vars(HandlerStep(p))

SpecLive == Init /\ [][Next]_vars /\ Fairness

\* The same with a caller of Store.Create that passes any list.
NextAnyList ==
    /\ ~crashed
    /\ \E p \in Procs :
          \/ StartCreate(p, FieldLists \cup RepeatedFieldLists)
          \/ StoreStep(p) \/ OracleStep(p)
    /\ idsUsed' <= ServerSessions
    /\ UNCHANGED call

SpecAnyList == Init /\ [][NextAnyList]_vars

\* The store with all four operations and MaxSessions sessions, under the
\* two handlers that call nothing else and a caller of Store.Delete.
NextStore ==
    /\ ~crashed
    /\ \E p \in Procs :
          \/ StartCreate(p, FieldLists) \/ StoreStep(p)
          \/ StartDelete(p) \/ Delete(p)
    /\ UNCHANGED call

SpecStore == Init /\ [][NextStore]_vars

(* ------------------------------------------------ calls of pure functions *)

\* The characters of the names handed to normalizeFieldName: white space, two
\* of the cutset of strings.Trim, a digit, a letter in both cases, and the
\* underscore.
NameChars == {" ", "$", "[", "0", "A", "a", "_"}

\* The strings over a set of characters, up to a length.
StringsOver(chars, n) == UNION { [1..k -> chars] : k \in 0..n }

Names == StringsOver(NameChars, MaxLen)

\* The server at rest.
AtRest ==
    /\ store = {}
    /\ objs = EmptyMap
    /\ idsUsed = 0
    /\ writer = NoProc
    /\ readers = {}
    /\ clock = 0
    /\ crashed = FALSE
    /\ pc = [p \in Procs |-> "idle"]
    /\ req = [p \in Procs |-> NoReq]
    /\ sess = [p \in Procs |-> NilSession]
    /\ tmp = [p \in Procs |-> NoTmp]
    /\ resp = [p \in Procs |-> NoResp]

ServerUnchanged ==
    UNCHANGED << storeVars, lockVars, clock, crashed, pc, req, sess, tmp, resp >>

\* A call normalizeFieldName(field) about to be made.
NormalizeInputs ==
    { [fn |-> "normalizeFieldName", step |-> 0, field |-> x] : x \in Names }

\* out := normalizeFieldName(field)
NormalizeCall ==
    /\ call.fn = "normalizeFieldName" /\ call.step = 0
    /\ call' = [fn |-> call.fn, step |-> 1, field |-> call.field,
                out |-> normalizeFieldName(call.field)]
    /\ ServerUnchanged

\* again := normalizeFieldName(out)
NormalizeAgain ==
    /\ call.fn = "normalizeFieldName" /\ call.step = 1
    /\ call' = [fn |-> call.fn, step |-> 2, field |-> call.field,
                out |-> call.out, again |-> normalizeFieldName(call.out)]
    /\ ServerUnchanged

\* The characters of the names in the oracle's reply: a letter in both cases,
\* a second letter, and a character normalization removes.
DetectNameChars == {"A", "a", "b", "$"}

\* The JSON arrays of names the oracle may reply with.
DetectFieldLists ==
    UNION { [1..k -> StringsOver(DetectNameChars, MaxNameLen)] : k \in 0..MaxList }

DetectInputs ==
    { [fn |-> "detectFieldsWithAI", step |-> 0, fieldList |-> l] : l \in DetectFieldLists }

\* fields := the tail of detectFieldsWithAI on fieldList
DetectCall ==
    /\ call.fn = "detectFieldsWithAI" /\ call.step = 0
    /\ call' = [fn |-> call.fn, step |-> 1, fieldList |-> call.fieldList,
                fields |-> NormalizeDetected(call.fieldList)]
    /\ ServerUnchanged

\* The pieces of the field names handed to InferFieldType: whole patterns of
\* both lists, parts of a pattern, one with a capital, and neutral ones.
NamePieces ==
    { <<"d","a","t","e">>, <<"D","o","b">>, <<"a","g","e">>,
      <<"t","o","t","a","l">>, <<"d","a","t">>, <<"e">>, <<"_">>,
      <<"n","a","m","e">> }

RECURSIVE Concat(_)
Concat(pieces) ==
    IF pieces = <<>> THEN <<>> ELSE Head(pieces) \o Concat(Tail(pieces))

TypedNames ==
    { Concat(l) : l \in UNION { [1..k -> NamePieces] : k \in 0..MaxPieces } }

InferInputs ==
    { [fn |-> "InferFieldType", step |-> 0, fieldName |-> x] : x \in TypedNames }

\* out := InferFieldType(fieldName)
InferCall ==
    /\ call.fn = "InferFieldType" /\ call.step = 0
    /\ call' = [fn |-> call.fn, step |-> 1, fieldName |-> call.fieldName,
                out |-> InferFieldType(call.fieldName)]
    /\ ServerUnchanged

PureInputs == NormalizeInputs \cup DetectInputs \cup InferInputs

InitPure == AtRest /\ call \in PureInputs

NextPure ==
    \/ NormalizeCall
    \/ NormalizeAgain
    \/ DetectCall
    \/ InferCall

SpecPure == InitPure /\ [][NextPure]_vars

(* ------------------------------------------------------------ FillDocument *)

\* strings.Replace(s, old, new, -1), which the document's Replace(old, new, -1)
\* applies to its content: the occurrences of old from left to right, none
\* overlapping another; an empty old matches before every character and at
\* the end.
RECURSIVE Replace(_, _, _)
Replace(s, old, new) ==
    IF old = <<>>
    THEN IF s = <<>> THEN new
         ELSE new \o <<Head(s)>> \o
              (IF Len(s) = 1 THEN new ELSE Replace(Tail(s), old, new))
    ELSE IF Len(s) < Len(old) THEN s
    ELSE IF SubSeq(s, 1, Len(old)) = old
         THEN new \o Replace(SubSeq(s, Len(old) + 1, Len(s)), old, new)
         ELSE <<Head(s)>> \o Replace(Tail(s), old, new)

\* "{{" + field + "}}"
Braces(field) == <<"{", "{">> \o field \o <<"}", "}">>

\* "[" + s + "]"
Brackets(x) == <<"[">> \o x \o <<"]">>

\* strings.Title(strings.ReplaceAll(field, "_", " "))
TitleCase(field) ==
    LET words == SplitUnderscore(field, <<>>)
    IN JoinSpace([i \in 1..Len(words) |-> Capitalize(words[i])])

\* strings.ReplaceAll(field, "_", "")
RemoveUnderscores(field) == SelectSeq(field, LAMBDA c : c # "_")

\* The orders in which "for k := range m" may visit the keys S of a map.
RangeOrders(S) ==
    { o \in [1..Cardinality(S) -> S] : Range(o) = S }

\* The four assignments createSimplePlaceholderMap makes for one field.
SimplePlaceholders(placeholders, field, answer) ==
    MapPut(MapPut(MapPut(MapPut(placeholders,
        Braces(field), answer),
        Brackets(field), answer),
        Brackets(TitleCase(field)), answer),
        Brackets(RemoveUnderscores(field)), answer)

\* createSimplePlaceholderMap(answers) when range visits the fields in the
\* order given, from its i-th on.
RECURSIVE SimpleMapFrom(_, _, _, _)
SimpleMapFrom(placeholders, answers, order, i) ==
    IF i > Len(order) THEN placeholders
    ELSE SimpleMapFrom(
            SimplePlaceholders(placeholders, order[i], answers[order[i]]),
            answers, order, i + 1)

createSimplePlaceholderMap(answers, order) ==
    SimpleMapFrom(EmptyMap, answers, order, 1)

\* The last loop of createSmartPlaceholderMap when range visits the fields
\* of mapping in the order given: result[placeholder] = answer for the fields
\* that have an answer.
RECURSIVE SmartMapFrom(_, _, _, _, _)
SmartMapFrom(result, mapping, answers, order, i) ==
    IF i > Len(order) THEN result
    ELSE SmartMapFrom(
            IF order[i] \in DOMAIN answers
            THEN MapPut(result, mapping[order[i]], answers[order[i]])
            ELSE result,
            mapping, answers, order, i + 1)

createSmartPlaceholderMap(mapping, answers, order) ==
    SmartMapFrom(EmptyMap, mapping, answers, order, 1)

\* The placeholder maps FillDocument may go on with: the smart one when
\* createSmartPlaceholderMap returned no error, else the simple one.
PlaceholderMaps(oracle, answers) ==
    IF oracle.err = "none"
    THEN { createSmartPlaceholderMap(oracle.mapping, answers, o) :
              o \in RangeOrders(DOMAIN oracle.mapping) }
    ELSE { createSimplePlaceholderMap(answers, o) :
              o \in RangeOrders(DOMAIN answers) }

\* The fields of the answers given to FillDocument.
Fill_a == <<"a">>
Fill_b == <<"b">>
Fill_ab == <<"a", "b">>
Fill_a_b == <<"a", "_", "b">>
FillFields == {Fill_a, Fill_b, Fill_ab, Fill_a_b}

\* The answers: a word, and a text that is the double-brace token of a field.
FillAnswerTexts == { <<"x">>, Braces(Fill_b) }

FillAnswers ==
    UNION { [D -> FillAnswerTexts] :
              D \in { E \in SUBSET FillFields : Cardinality(E) <= MaxAnswers } }

\* The pieces of the documents' text: tokens in both spellings, plain text.
DocPieces == { Braces(Fill_a), Braces(Fill_b), Brackets(Fill_ab), <<"-">> }

DocTexts ==
    { Concat(l) : l \in UNION { [1..k -> DocPieces] : k \in 0..MaxDocPieces } }

\* What findPlaceholdersWithAI may return for the fields sent: an error, or
\* the mapping json.Unmarshal yields, which nothing compares with the fields
\* or with the text: empty, the double-brace token of every field, one token
\* for every field, or a string the text does not have.
FillOracleReplies(fields) ==
    { [err |-> "other", mapping |-> EmptyMap],
      [err |-> "none", mapping |-> EmptyMap],
      [err |-> "none", mapping |-> [f \in fields |-> Braces(f)]],
      [err |-> "none", mapping |-> [f \in fields |-> Brackets(Fill_ab)]],
      [err |-> "none", mapping |-> [f \in fields |-> Brackets(<<"z">>)]] }

FillInputs ==
    { [fn |-> "FillDocument", step |-> 0, docText |-> d, answers |-> a, oracle |-> o] :
        d \in DocTexts, a \in FillAnswers,
        o \in UNION { FillOracleReplies(DOMAIN b) : b \in FillAnswers } }

\* FillDocument up to its loop: the content of the document, and the
\* placeholder map.
FillMapCall ==
    /\ call.fn = "FillDocument" /\ call.step = 0
    /\ \E placeholderMap \in PlaceholderMaps(call.oracle, call.answers) :
          call' = [fn |-> call.fn, step |-> 1, docText |-> call.docText,
                   answers |-> call.answers, oracle |-> call.oracle,
                   placeholderMap |-> placeholderMap,
                   todo |-> DOMAIN placeholderMap,
                   content |-> call.docText]
    /\ ServerUnchanged

\* One round of "for placeholder, answer := range placeholderMap", on a
\* placeholder the loop has not visited yet.
FillReplace ==
    /\ call.fn = "FillDocument" /\ call.step = 1
    /\ \E placeholder \in call.todo :
          call' = [call EXCEPT
                     !.content = Replace(@, placeholder, call.placeholderMap[placeholder]),
                     !.todo = @ \ {placeholder}]
    /\ ServerUnchanged

\* The end of the loop: the content is written and returned.
FillReturn ==
    /\ call.fn = "FillDocument" /\ call.step = 1
    /\ call.todo = {}
    /\ call' = [call EXCEPT !.step = 2]
    /\ ServerUnchanged

InitFill == AtRest /\ call \in FillInputs

NextFill ==
    \/ FillMapCall
    \/ FillReplace
    \/ FillReturn

SpecFill == InitFill /\ [][NextFill]_vars

(* -------------------------------------------------------------- properties *)

\* The lowest index of a field of s with no entry in answers, 0 when every
\* field has one.
LowestUnanswered(s) ==
    LET U == { i \in 1..Len(s.fields) : s.fields[i] \notin DOMAIN s.answers }
    IN IF U = {} THEN 0 ELSE CHOOSE i \in U : \A j \in U : i <= j

\* The number of fields of s that have an entry in answers.
NumAnswered(s) ==
    Cardinality({ i \in 1..Len(s.fields) : s.fields[i] \in DOMAIN s.answers })

\* C1: the scan of next-question finds the lowest-indexed field of the
\* session's list with no entry in answers, whatever the order of the
\* submissions before it; the response names that field, and it says done
\* exactly when the scan found none, in which case no field is unanswered.
C1_NextIsLowestUnanswered ==
    [][\A p \in Procs :
         /\ (pc[p] = "next_scan" /\ pc'[p] = "next_respond")
               => tmp'[p].index = LowestUnanswered(objs[sess[p]])
         /\ (pc[p] = "next_respond" /\ pc'[p] = "done")
               => LET i == tmp[p].index
                      s == objs[sess[p]]
                  IN /\ resp'[p].done <=> (i = 0)
                     /\ i # 0 => resp'[p].field = s.fields[i]
                     /\ resp'[p].done =>
                           \A j \in 1..Len(s.fields) : s.fields[j] \in DOMAIN s.answers
      ]_vars

\* Next-question answers with the first field although the second one was
\* answered before it.
C1_Witness ==
    \E p \in Procs :
        /\ pc[p] = "done"
        /\ req[p].op = "next"
        /\ resp[p].status = 200
        /\ ~resp[p].done
        /\ resp[p].field = F_dob
        /\ F_age \in DOMAIN objs[sess[p]].answers

\* C2: every next-question response reports as progress the number of
\* fields that have an answer and as total the number of fields; a response
\* that says done reports progress = total.
C2_NextProgress ==
    [][\A p \in Procs :
         (pc[p] = "next_respond" /\ pc'[p] = "done")
            => LET s == objs[sess[p]] IN
               /\ resp'[p].progress = NumAnswered(s)
               /\ resp'[p].total = Len(s.fields)
               /\ resp'[p].done => resp'[p].progress = resp'[p].total
      ]_vars

\* The last response of the sequence: done with progress 2 of 2.
C2_Witness ==
    \E p \in Procs :
        /\ pc[p] = "done"
        /\ req[p].op = "next"
        /\ resp[p].status = 200
        /\ resp[p].done
        /\ resp[p].progress = 2
        /\ resp[p].total = 2

\* C3: a submission whose field is not an element of the session's list is
\* answered 400 invalid_field by a step that changes no session, and no
\* submission with such a field ever gets to Store.Update.
C3_UnknownFieldRejected ==
    [][\A p \in Procs :
         /\ ( /\ pc[p] = "get_rlock"
              /\ pc'[p] # pc[p]
              /\ req[p].op = "submit"
              /\ req[p].sid \in store
              /\ ~ \E i \in 1..Len(objs[req[p].sid].fields) :
                       objs[req[p].sid].fields[i] = req[p].field )
            => /\ pc'[p] = "done"
               /\ resp'[p] = ErrorResponse(400, "invalid_field")
               /\ objs' = objs
               /\ store' = store
         /\ ( /\ req[p].op = "submit"
              /\ pc[p] \in {"upd_lock", "upd_apply", "submit_respond"} )
            => \E i \in 1..Len(objs[sess[p]].fields) :
                   objs[sess[p]].fields[i] = req[p].field
      ]_vars

\* A submission for "zz" was refused on a session that has answers.
C3_Witness ==
    \E p \in Procs :
        /\ pc[p] = "done"
        /\ req[p].op = "submit"
        /\ req[p].field = F_zz
        /\ resp[p] = ErrorResponse(400, "invalid_field")
        /\ DOMAIN objs[sess[p]].answers # {}

\* C4: in every session the keys of answers and the keys of questions are
\* among the session's fields.
C4_KeysWithinFields ==
    \A id \in DOMAIN objs :
        (DOMAIN objs[id].answers) \cup (DOMAIN objs[id].questions)
            \subseteq Range(objs[id].fields)

\* C5: the isCompleted flag of a session-status response is true exactly
\* when every field of the session's list has a key in answers.
C5_IsCompletedIffAllAnswered ==
    \A p \in Procs :
        (pc[p] = "done" /\ req[p].op = "status" /\ resp[p].status = 200)
            => ( resp[p].isCompleted
                   <=> \A i \in 1..Len(resp[p].fields) :
                           resp[p].fields[i] \in DOMAIN resp[p].answers )

\* C6: at most one handler is inside Store.Update, and the update of a
\* submission adds its answer to the answers that are there: every other key
\* keeps its value, and the submitted field has the value of the update that
\* commits.
C6_SubmissionsSerialized ==
    [][ /\ \A p, q \in Procs :
              (pc[p] = "upd_apply" /\ pc[q] = "upd_apply") => p = q
        /\ \A p \in Procs :
              ( /\ pc[p] = "upd_apply"
                /\ pc'[p] # pc[p]
                /\ req[p].op = "submit"
                /\ req[p].sid \in store )
              => LET old == objs[req[p].sid].answers
                     new == objs'[req[p].sid].answers
                 IN /\ DOMAIN new = (DOMAIN old) \cup {req[p].field}
                    /\ new[req[p].field] = req[p].answer
                    /\ \A f \in (DOMAIN old) \ {req[p].field} : new[f] = old[f]
      ]_vars

\* Two submissions for different fields of one session were in flight
\* together, both have committed, and both answers are there.
C6_Witness ==
    \E p, q \in Procs :
        /\ p # q
        /\ pc[p] = "submit_respond"
        /\ pc[q] = "submit_respond"
        /\ sess[p] = sess[q]
        /\ req[p].field # req[q].field
        /\ {req[p].field, req[q].field} \subseteq DOMAIN objs[sess[p]].answers

\* C7: no handler is about to read a map of a session while the mutator of
\* an update writes that map.
C7_NoReadDuringWrite == \A p \in Procs : ~Racing(p)

\* C8, as stated: while an update is in progress on one session, a read or
\* an update of another session can take the lock.
C8_NeverBlocksOtherSession ==
    \A p, q \in Procs :
        ( /\ pc[p] = "upd_apply"
          /\ pc[q] \in {"get_rlock", "upd_lock"}
          /\ req[p].sid \in store
          /\ req[q].sid \in store
          /\ req[q].sid # req[p].sid )
        => IF pc[q] = "get_rlock" THEN CanRLock(q) ELSE CanLock(q)

\* C8, amended: an update changes no session but its own, and while it is in
\* progress it holds the one lock of the store, which no read and no update
\* of any session can take.
C8_OtherSessionsUntouched ==
    [][\A p \in Procs :
         /\ (pc[p] = "upd_apply" /\ pc'[p] # pc[p])
               => /\ DOMAIN objs' = DOMAIN objs
                  /\ \A id \in (DOMAIN objs) \ {req[p].sid} : objs'[id] = objs[id]
         /\ pc[p] = "upd_apply"
               => /\ writer = p
                  /\ \A q \in Procs : ~CanRLock(q) /\ ~CanLock(q)
      ]_vars

\* An update of one session is in progress and a read of another session
\* waits for the lock.
C8_Witness ==
    \E p, q \in Procs :
        /\ pc[p] = "upd_apply"
        /\ pc[q] = "get_rlock"
        /\ req[p].sid \in store
        /\ req[q].sid \in store
        /\ req[q].sid # req[p].sid

\* The statements at which a call to the oracle is in flight.
OracleCalls == {"q_oracle", "fill_oracle", "detect_oracle"}

\* C9: a handler whose call to the oracle is in flight holds the lock of the
\* store neither for writing nor for reading.
C9_NoLockDuringOracle ==
    \A p \in Procs :
        pc[p] \in OracleCalls => (writer # p /\ p \notin readers)

\* A question-enrichment call is in flight while another handler is inside
\* Store.Update.
C9_Witness ==
    \E p, q \in Procs :
        /\ pc[p] = "q_oracle"
        /\ pc[q] = "upd_apply"
        /\ writer = q

\* C10: Get of an id that is in the store yields the session of that id; Get,
\* Update and Delete of an id that is not report the error and change no
\* session; an id enters the store by Create only and leaves it by Delete
\* only.
C10_StoreContract ==
    [][ /\ \A p \in Procs :
              /\ (pc[p] = "get_rlock" /\ pc'[p] # pc[p])
                    => IF req[p].sid \in store
                       THEN /\ sess'[p] = req[p].sid
                            /\ objs[sess'[p]].id = req[p].sid
                       ELSE /\ pc'[p] = "done"
                            /\ resp'[p] = ErrorResponse(404, "session_not_found")
                            /\ objs' = objs
                            /\ store' = store
              /\ (pc[p] = "upd_apply" /\ pc'[p] # pc[p] /\ req[p].sid \notin store)
                    => /\ pc'[p] = "done"
                       /\ resp'[p] = ErrorResponse(500, "update_failed")
                       /\ objs' = objs
                       /\ store' = store
              /\ (pc[p] = "del_lock" /\ pc'[p] # pc[p] /\ req[p].sid \notin store)
                    => /\ pc'[p] = "done"
                       /\ resp'[p] = ErrorResponse(404, "ErrSessionNotFound")
                       /\ objs' = objs
                       /\ store' = store
        /\ store' # store
              => \E p \in Procs :
                    \/ /\ pc[p] = "create_lock"
                       /\ pc'[p] = "done"
                       /\ store' = store \cup {tmp[p].session.id}
                    \/ /\ pc[p] = "del_lock"
                       /\ pc'[p] = "done"
                       /\ req[p].sid \in store
                       /\ store' = store \ {req[p].sid}
      ]_vars

\* An update was refused because the session was deleted after the handler's
\* Get.
C10_Witness ==
    \E p \in Procs :
        /\ pc[p] = "done"
        /\ req[p].op = "submit"
        /\ resp[p] = ErrorResponse(500, "update_failed")
        /\ sess[p] \in DOMAIN objs
        /\ sess[p] \notin store

\* C11: no step changes the id, the document, the field list or createdAt
\* of a session that exists; an update that finds its session sets updatedAt
\* to the reading of the clock taken in that update, which is later than
\* every reading before it; updatedAt never decreases and is never earlier
\* than createdAt.
C11_FrameAndTimestamps ==
    [][ /\ \A id \in DOMAIN objs :
              /\ id \in DOMAIN objs'
              /\ objs'[id].id = objs[id].id
              /\ objs'[id].originalDoc = objs[id].originalDoc
              /\ objs'[id].fields = objs[id].fields
              /\ objs'[id].createdAt = objs[id].createdAt
              /\ objs'[id].updatedAt >= objs[id].updatedAt
              /\ objs'[id].updatedAt >= objs'[id].createdAt
        /\ \A p \in Procs :
              (pc[p] = "upd_apply" /\ pc'[p] # pc[p] /\ req[p].sid \in store)
                 => /\ clock' > clock
                    /\ objs'[req[p].sid].updatedAt = clock'
      ]_vars

\* A session that an answer and an enrichment have updated: updatedAt is two
\* readings later than createdAt.
C11_Witness ==
    \E id \in DOMAIN objs :
        /\ objs[id].updatedAt >= objs[id].createdAt + 2
        /\ DOMAIN objs[id].answers # {}
        /\ DOMAIN objs[id].questions # {}

\* Every field of s has a key in answers.
AllAnswered(s) ==
    \A i \in 1..Len(s.fields) : s.fields[i] \in DOMAIN s.answers

\* C12: no step removes a key from the answers of a session, and a session
\* in which every field is answered is so after every step.
C12_AnswersOnlyGrow ==
    [][\A id \in DOMAIN objs :
         /\ id \in DOMAIN objs'
         /\ DOMAIN objs[id].answers \subseteq DOMAIN objs'[id].answers
         /\ AllAnswered(objs[id]) => AllAnswered(objs'[id])
      ]_vars

\* A submission completed a session, and a later submission has overwritten
\* its answer: the session is still complete.
C12_Witness ==
    \E p \in Procs :
        /\ pc[p] = "submit_respond"
        /\ AllAnswered(objs[sess[p]])
        /\ objs[sess[p]].answers[req[p].field] # req[p].answer

\* C13: the check of a generate request on a session with an unanswered
\* field answers 400 incomplete_answers and changes no session; only a
\* session with every field answered gets past it, so FillDocument runs on
\* such sessions only.
C13_GenerateNeedsAllAnswers ==
    [][\A p \in Procs :
         /\ (pc[p] = "gen_check" /\ pc'[p] # pc[p])
               => IF AllAnswered(objs[sess[p]])
                  THEN pc'[p] = "fill_open"
                  ELSE /\ pc'[p] = "done"
                       /\ resp'[p] = ErrorResponse(400, "incomplete_answers")
                       /\ objs' = objs
                       /\ store' = store
         /\ pc[p] \in {"fill_open", "fill_oracle"} => AllAnswered(objs[sess[p]])
      ]_vars

\* A generate request was refused on a session that has one of its two
\* fields answered.
C13_Witness ==
    \E p \in Procs :
        /\ pc[p] = "done"
        /\ req[p].op = "generate"
        /\ resp[p] = ErrorResponse(400, "incomplete_answers")
        /\ DOMAIN objs[sess[p]].answers # {}
        /\ ~AllAnswered(objs[sess[p]])

\* C14: when the smart placeholder map failed (no key, quota, any other
\* error of the oracle call) and the output file was written, the request
\* ends with a document filled in simple mode; a generate request that got to
\* FillDocument ends in an error only when the document could not be read or
\* the output could not be written.
C14_FillFallsBack ==
    \A p \in Procs :
        (pc[p] = "done" /\ req[p].op = "generate" /\ resp[p].status \in {200, 500})
           => /\ tmp[p].kind = "fill"
                    => /\ tmp[p].written <=> resp[p].status = 200
                       /\ (tmp[p].written /\ tmp[p].err # "none")
                             => resp[p].mode = "simple"
              /\ resp[p].status = 500
                    => resp[p].message \in
                          {"failed to read docx", "failed to write filled document"}

\* The oracle's quota was exhausted and the request ended with a document
\* filled in simple mode.
C14_Witness ==
    \E p \in Procs :
        /\ pc[p] = "done"
        /\ req[p].op = "generate"
        /\ tmp[p].kind = "fill"
        /\ tmp[p].err = "quota"
        /\ resp[p].status = 200
        /\ resp[p].mode = "simple"

\* C15: a handler whose enrichment call failed answers without calling
\* Store.Update, in a step that changes no session (answers, questions and
\* fieldTypes included); no step of FillDocument, whatever the oracle
\* returns to it, changes a session.
C15_OracleFailureChangesNothing ==
    [][\A p \in Procs :
         /\ (pc[p] = "q_oracle" /\ pc'[p] # pc[p] /\ tmp'[p].err # "none")
               => /\ pc'[p] = "done"
                  /\ objs' = objs
                  /\ store' = store
         /\ (req[p].op = "questions" /\ pc[p] \in {"upd_lock", "upd_apply"})
               => tmp[p].err = "none"
         /\ (pc[p] \in {"fill_open", "fill_oracle"} /\ pc'[p] # pc[p])
               => /\ objs' = objs
                  /\ store' = store
      ]_vars

\* An enrichment request has failed on a session that has a saved answer.
C15_Witness ==
    \E p \in Procs :
        /\ pc[p] = "done"
        /\ req[p].op = "questions"
        /\ tmp[p].kind = "metadata"
        /\ tmp[p].err # "none"
        /\ DOMAIN objs[sess[p]].answers # {}

\* C16: an enrichment request whose oracle call failed ends with status 200
\* all the same.
C16_EnrichmentNeverFails ==
    \A p \in Procs :
        ( /\ pc[p] = "done"
          /\ req[p].op = "questions"
          /\ tmp[p].kind = "metadata"
          /\ tmp[p].err # "none" )
            => resp[p].status = 200

\* C17: an upload whose extraction failed for exhausted quota ends with an
\* error kind that no upload whose extraction failed for another reason ends
\* with.
C17_QuotaKindDistinct ==
    \A p, q \in Procs :
        ( /\ pc[p] = "done" /\ req[p].op = "upload"
          /\ tmp[p].kind = "detect" /\ tmp[p].err = "quota"
          /\ pc[q] = "done" /\ req[q].op = "upload"
          /\ tmp[q].kind = "detect" /\ tmp[q].err \in {"read", "key_missing", "other"} )
            => resp[p].error # resp[q].error

\* C18: no upload fails because the oracle path of extraction could not
\* complete (no key, exhausted quota, any other error of the call).
C18_ExtractionFallsBack ==
    \A p \in Procs :
        ( /\ pc[p] = "done" /\ req[p].op = "upload"
          /\ tmp[p].kind = "detect"
          /\ tmp[p].err \in {"key_missing", "quota", "other"} )
            => resp[p].status = 200

\* The error kinds with which HandleUpload rejects an upload.
UploadErrors ==
    { "missing_file", "invalid_file_type", "file_read_error",
      "field_detection_error", "no_fields_found", "session_creation_error" }

\* C19 (as stated): an upload creates a session if and only if its
\* extraction succeeded with at least one field.
C19_SessionIffExtraction ==
    \A p \in Procs :
        (pc[p] = "done" /\ req[p].op = "upload")
            => ( (tmp[p].kind \in {"session", "fields"})
                   <=> (resp[p].status = 200 /\ resp[p].sessionId \in store) )

\* C19 (amended): the step that ends an upload adds a session only after an
\* extraction that gave at least one field, and then adds exactly the session
\* it reports; an upload that ends with an error leaves the store as it was;
\* zero extracted fields end in no_fields_found (400), an extraction error in
\* field_detection_error, and an extraction with fields that created no
\* session in session_creation_error.
C19_UploadCreatesOnlyWithFields ==
    [][ \A p \in Procs :
          (req'[p].op = "upload" /\ pc[p] # "done" /\ pc'[p] = "done")
            => /\ resp'[p].status = 200
                    => /\ pc[p] = "create_lock"
                       /\ Len(tmp[p].session.fields) >= 1
                       /\ resp'[p].sessionId \notin store
                       /\ store' = store \cup {resp'[p].sessionId}
                       /\ objs'[resp'[p].sessionId].fields = tmp[p].session.fields
                       /\ resp'[p].fields = tmp[p].session.fields
               /\ resp'[p].status # 200
                    => /\ store' = store
                       /\ objs' = objs
                       /\ resp'[p].error \in UploadErrors
               /\ (tmp'[p].kind = "detect" /\ tmp'[p].err = "none")
                    <=> resp'[p] = ErrorResponse(400, "no_fields_found")
               /\ (tmp'[p].kind = "detect" /\ tmp'[p].err # "none")
                    <=> resp'[p].error = "field_detection_error"
               /\ tmp'[p].kind = "fields"
                    <=> resp'[p].error = "session_creation_error"
               /\ tmp'[p].kind = "fields" => Len(tmp'[p].fields) >= 1
      ]_vars

C19_Witness ==
    \E p, q \in Procs :
        /\ pc[p] = "done" /\ req[p].op = "upload"
        /\ resp[p].status = 200 /\ resp[p].sessionId \in store
        /\ pc[q] = "done" /\ req[q].op = "upload"
        /\ resp[q].error = "no_fields_found"

\* C20: every oracle call resolves: a request that waits for the oracle
\* eventually stops waiting, whether or not the oracle answers.
C20_OracleCallsResolve ==
    \A p \in Procs : (pc[p] \in OracleCalls) ~> (pc[p] \notin OracleCalls)

\* C21: normalizing a normalized name gives the same name:
\* normalizeFieldName(normalizeFieldName(x)) = normalizeFieldName(x).
C21_NormalizeIdempotent ==
    (call.fn = "normalizeFieldName" /\ call.step = 2)
        => call.again = call.out

\* A name that normalization changed in more than one way and did not empty.
C21_Witness ==
    /\ call.fn = "normalizeFieldName" /\ call.step = 2
    /\ call.field = <<"[", "A", " ">>
    /\ call.out = <<"a">>
    /\ call.again = call.out

\* The characters of an identifier.
IdentChars == {"a", "b", "d", "e", "g", "o", "z", "0", "1", "_"}

\* C22: the field list detectFieldsWithAI makes of the oracle's names holds
\* identifiers of a-z, 0-9 and "_" only, is in strictly ascending byte order
\* (so no identifier is there twice), and holds exactly the normalized names.
C22_FieldListNormalSortedUnique ==
    (call.fn = "detectFieldsWithAI" /\ call.step = 1)
        => /\ \A i \in 1..Len(call.fields) :
                 \A j \in 1..Len(call.fields[i]) : call.fields[i][j] \in IdentChars
           /\ \A i, j \in 1..Len(call.fields) :
                 i < j => /\ call.fields[i] # call.fields[j]
                          /\ StrLess(call.fields[i], call.fields[j])
           /\ Range(call.fields)
                 = { normalizeFieldName(call.fieldList[i]) : i \in 1..Len(call.fieldList) }

\* A reply out of order in which two names normalize to one identifier.
C22_Witness ==
    /\ call.fn = "detectFieldsWithAI" /\ call.step = 1
    /\ call.fieldList = << <<"b">>, <<"A">>, <<"a", "$">> >>
    /\ call.fields = << <<"a">>, <<"b">> >>

\* The substrings that make an identifier a date, and a number.
DateWords ==
    { <<"d","a","t","e">>,
      <<"d","o","b">>,
      <<"b","i","r","t","h">>,
      <<"d","e","a","d","l","i","n","e">>,
      <<"e","x","p","i","r","y">>,
      <<"e","x","p","i","r","a","t","i","o","n">>,
      <<"a","n","n","i","v","e","r","s","a","r","y">> }

NumberWords ==
    { <<"a","g","e">>,
      <<"c","o","u","n","t">>,
      <<"n","u","m","b","e","r">>,
      <<"a","m","o","u","n","t">>,
      <<"q","u","a","n","t","i","t","y">>,
      <<"p","r","i","c","e">>,
      <<"t","o","t","a","l">>,
      <<"s","u","m">>,
      <<"y","e","a","r">>,
      <<"m","o","n","t","h","s">>,
      <<"d","a","y","s">>,
      <<"h","o","u","r","s">> }

\* word occurs in s, letter case apart.
Occurs(word, s) ==
    \E i \in 1..Len(s) :
        /\ i + Len(word) - 1 <= Len(s)
        /\ \A k \in 1..Len(word) : LowerChar(s[i + k - 1]) = word[k]

\* C23: the classifier answers date when the name contains a date substring,
\* otherwise number when it contains a number substring, otherwise text; so
\* it answers for every name, with one of the three, and with date when both
\* kinds of substring occur.
C23_ClassifierByPrecedence ==
    (call.fn = "InferFieldType" /\ call.step = 1)
        => /\ call.out \in {"text", "number", "date"}
           /\ call.out = "date" <=> \E x \in DateWords : Occurs(x, call.fieldName)
           /\ call.out = "number"
                <=> /\ \E x \in NumberWords : Occurs(x, call.fieldName)
                    /\ ~ \E x \in DateWords : Occurs(x, call.fieldName)

\* A name with a number substring before a date substring.
C23_Witness ==
    /\ call.fn = "InferFieldType" /\ call.step = 1
    /\ call.fieldName = <<"a","g","e","_","D","o","b">>
    /\ call.out = "date"

\* C24: after every step each session's fieldTypes has exactly the session's
\* fields as keys and text, number or date as values; and the commit of an
\* enrichment leaves the type of every field for which the reply has no type
\* as it was.
C24_FieldTypesTotalAndKept ==
    [][ /\ \A id \in DOMAIN objs' :
              /\ DOMAIN objs'[id].fieldTypes = Range(objs'[id].fields)
              /\ \A f \in DOMAIN objs'[id].fieldTypes :
                    objs'[id].fieldTypes[f] \in {"text", "number", "date"}
        /\ \A p \in Procs :
              ( /\ pc[p] = "upd_apply" /\ pc'[p] = "done"
                /\ req[p].op = "questions" /\ resp'[p].status = 200 )
                 => \A f \in Range(objs[sess[p]].fields) :
                       (f \notin DOMAIN tmp[p].reply \/ tmp[p].reply[f].type = "")
                          => objs'[sess[p]].fieldTypes[f] = objs[sess[p]].fieldTypes[f]
      ]_vars

\* C25: the next-question response for an unanswered field carries the
\* field, the session's fieldTypes entry of it, and the question: the stored
\* one with isAIPhrased true when questions has the field, otherwise
\* "What is the " + the humanized name + "?" with isAIPhrased false.
C25_NextCarriesTypeAndQuestion ==
    [][ \A p \in Procs :
          ( /\ pc[p] = "next_respond" /\ pc'[p] = "done"
            /\ ~resp'[p].done )
             => LET s == objs[sess[p]]
                    f == resp'[p].field
                IN /\ f \in Range(s.fields)
                   /\ resp'[p].fieldType = s.fieldTypes[f]
                   /\ IF f \in DOMAIN s.questions
                      THEN /\ resp'[p].question = s.questions[f]
                           /\ resp'[p].isAIPhrased
                      ELSE /\ resp'[p].question = humanizeFieldName(f)
                           /\ ~resp'[p].isAIPhrased
      ]_vars

\* C27: a submission that Update commits leaves the submitted value as the
\* field's answer, and when the field had an answer already the number of
\* answered fields is as before; the progress of every successful submission
\* is the number of answered fields at that moment and at most total.
C27_SubmitOverwritesAndCounts ==
    [][ \A p \in Procs :
          /\ ( /\ pc[p] = "upd_apply" /\ pc'[p] = "submit_respond"
               /\ req[p].op = "submit" )
                => LET before == objs[sess[p]]
                       after == objs'[sess[p]]
                   IN /\ after.answers[req[p].field] = req[p].answer
                      /\ req[p].field \in DOMAIN before.answers
                            => NumAnswered(after) = NumAnswered(before)
          /\ (pc[p] = "submit_respond" /\ pc'[p] = "done")
                => /\ resp'[p].progress = NumAnswered(objs[sess[p]])
                   /\ resp'[p].progress <= resp'[p].total
      ]_vars

\* C29: every field of every session in the store has a submission that the
\* answer endpoint accepts: one that passes the binding of the request and
\* the test that the field is in the session.
C29_EveryFieldAnswerable ==
    \A id \in store :
        \A f \in Range(objs[id].fields) :
            \E answer \in ReqAnswers :
                /\ BindAnswerRequest(f, answer)
                /\ fieldExists(objs[id].fields, f)

\* The text in which, going through s once from left to right, every
\* occurrence of a key of m is replaced by the key's value and every other
\* character is kept.
RECURSIVE SubstituteAll(_, _)
SubstituteAll(s, m) ==
    IF s = <<>> THEN <<>>
    ELSE LET hits == { k \in DOMAIN m :
                         /\ k # <<>>
                         /\ Len(k) <= Len(s)
                         /\ SubSeq(s, 1, Len(k)) = k }
         IN IF hits = {}
            THEN <<Head(s)>> \o SubstituteAll(Tail(s), m)
            ELSE LET k == CHOOSE k \in hits : TRUE
                 IN m[k] \o SubstituteAll(SubSeq(s, Len(k) + 1, Len(s)), m)

\* C26: the text FillDocument returns is the document's text with every
\* occurrence of each placeholder of the map replaced by its answer and all
\* other text as it was; when no placeholder of the map occurs in the
\* document the text is unchanged.
C26_EveryOccurrenceReplaced ==
    (call.fn = "FillDocument" /\ call.step = 2)
        => /\ call.content = SubstituteAll(call.docText, call.placeholderMap)
           /\ (\A k \in DOMAIN call.placeholderMap : ~Contains(call.docText, k))
                 => call.content = call.docText

\* One order of the elements of S.
RECURSIVE SomeOrder(_)
SomeOrder(S) ==
    IF S = {} THEN <<>>
    ELSE LET x == CHOOSE x \in S : TRUE IN <<x>> \o SomeOrder(S \ {x})

\* The content after the replacements of m made in the order given, from its
\* i-th on.
RECURSIVE ReplaceInOrder(_, _, _, _)
ReplaceInOrder(content, m, order, i) ==
    IF i > Len(order) THEN content
    ELSE ReplaceInOrder(Replace(content, order[i], m[order[i]]), m, order, i + 1)

\* What FillDocument returns when every range loop takes the order SomeOrder
\* gives.
FillInSomeOrder(docText, answers, oracle) ==
    LET m == IF oracle.err = "none"
             THEN createSmartPlaceholderMap(oracle.mapping, answers,
                                            SomeOrder(DOMAIN oracle.mapping))
             ELSE createSimplePlaceholderMap(answers, SomeOrder(DOMAIN answers))
    IN ReplaceInOrder(docText, m, SomeOrder(DOMAIN m), 1)

\* C28: the text FillDocument returns depends on the document, the answers
\* and the oracle's reply only: whatever orders its loops took, it is the
\* text that one fixed order gives.
C28_FillDeterministic ==
    (call.fn = "FillDocument" /\ call.step = 2)
        => call.content = FillInSomeOrder(call.docText, call.answers, call.oracle)

\* C30: when the document has the token {{f}} of a field f with an answer,
\* the text FillDocument returns has the answer and no {{f}} any more,
\* whatever the oracle replied (stated for answers that hold no token
\* themselves).
C30_DoubleBraceAlwaysFilled ==
    ( /\ call.fn = "FillDocument" /\ call.step = 2
      /\ \A g \in DOMAIN call.answers : call.answers[g] = <<"x">> )
        => \A f \in DOMAIN call.answers :
              Contains(call.docText, Braces(f))
                 => /\ ~Contains(call.content, Braces(f))
                    /\ Contains(call.content, call.answers[f])

====
